---- MODULE Spec2Model ----
(***************************************************************************)
(* Model of client/pluginmanager/csimanager/volume.go: the node-local CSI  *)
(* volume manager.  Each allocation runner is a thread of control calling  *)
(* MountVolume / UnmountVolume on one shared volumeManager; the host file  *)
(* system (staging directories, mount table) and the CSI plugin are the    *)
(* environment.                                                            *)
(***************************************************************************)
EXTENDS Integers, Sequences, FiniteSets, TLC

\* ------------------------------------------------------------------ bounds
\* MountVolume calls started in one behaviour
MaxCalls == 2

\* crashes of the client process explored, each followed by newVolumeManager
MaxRestarts == 1

\* the allocation runners calling the manager concurrently
Allocs == {"A", "B"}

\* ------------------------------------------------------- program constants
StagingDirName == "staging"
AllocSpecificDirName == "per-alloc"
\* grpc_retry.WithMax(3)
RetryMax_Four == 3 + 1
RetryMax == 3
\* grpc_retry.BackoffExponential(100*time.Millisecond), in milliseconds
BackoffScalar == 100
\* DefaultMountActionTimeout = 2 * time.Minute, in milliseconds
DefaultMountActionTimeout == 120000

\* --------------------------------------------------------------- vocabulary
nil == "nil"

VolumeIDs == {"vol-1", "vol-2"}
MountRoots == {"/data/csi"}

CSIVolumeAttachmentModes == {"BlockDevice", "Filesystem"}
CSIVolumeAccessModes ==
    {"SingleNodeReader", "SingleNodeWriter", "MultiNodeReader",
     "MultiNodeSingleWriter", "MultiNodeMultiWriter"}
UnknownMode == "unknown"

\* structs.CSIVolume values a caller may pass, including corrupted ones
CSIVolumes ==
    [ID : VolumeIDs,
     AttachmentMode : CSIVolumeAttachmentModes \cup {UnknownMode},
     AccessMode : CSIVolumeAccessModes \cup {UnknownMode}]

\* the volumes the allocation runners of this node hold: two usage modes of
\* vol-1, vol-1 with a corrupted attachment mode, and a second volume
NodeVolumes ==
    {[ID |-> "vol-1", AttachmentMode |-> "Filesystem", AccessMode |-> "SingleNodeWriter"],
     [ID |-> "vol-1", AttachmentMode |-> "BlockDevice", AccessMode |-> "MultiNodeReader"],
     [ID |-> "vol-1", AttachmentMode |-> UnknownMode, AccessMode |-> "SingleNodeWriter"],
     [ID |-> "vol-2", AttachmentMode |-> "Filesystem", AccessMode |-> "SingleNodeWriter"]}

\* the volumes mounted in the runs with crashes: one usage mode of each volume
RestartVolumes == {vol \in NodeVolumes : vol.AttachmentMode = "Filesystem"}

NoVolume == [ID |-> "none", AttachmentMode |-> "none", AccessMode |-> "none"]
NoCapability == [AccessType |-> "none", AccessMode |-> "none"]

\* errors
ErrMkdir == "failed to create staging directory"
ErrProbe == "mount point detection failed"
ErrAttachmentMode == "Unknown volume attachment mode"
ErrAccessMode == "Unknown volume access mode"
ErrUnimplemented == "Unimplemented"

\* gRPC status codes the plugin call can end with
TransientCodes == {"DeadlineExceeded", "ResourceExhausted", "Unavailable"}
FatalCodes == {"Internal"}
\* status of a call whose caller's context is cancelled or past its deadline
CtxCodes == {"Canceled", "DeadlineExceeded"}

\* outcomes of os.MkdirAll
MkdirOutcomes == {nil, "EEXIST", "EACCES"}
\* errors of mount.IsNotAMountPoint
ProbeErrors == {nil, "EIO"}

VARIABLES
    requiresStaging,   \* volumeManager.requiresStaging
    mountRoot,         \* volumeManager.mountRoot
    volumes,           \* volumeManager.volumes
    dirs,              \* host: directories that exist
    mounted,           \* host: paths that are mount points
    nodeUnstageCalls,  \* plugin: NodeUnstageVolume invocations per volume ID
    stagedKeys,        \* history: usage keys a plugin stage call mounted
    consumers,         \* history: <<allocation, usage key>> mounted, not unmounted
    ncalls,            \* number of MountVolume calls started so far
    restarts,          \* number of times the manager was recreated
    stagedAtCrash,     \* history: stagedKeys at the last recreation
    calls              \* per allocation runner: the call it is in

vars == <<requiresStaging, mountRoot, volumes, dirs, mounted, nodeUnstageCalls, stagedKeys, consumers,
          ncalls, restarts, stagedAtCrash, calls>>

\* ------------------------------------------------------------ pure helpers

\* UsageKey of the specification: (Volume.ID, AttachmentMode, AccessMode)
UsageKey(vol) == <<vol.ID, vol.AttachmentMode, vol.AccessMode>>

\* filepath.Join(v.mountRoot, StagingDirName, vol.ID, "todo-provide-usage-options")
stagingDirForVolume_PerProcess(root, vol) ==
    <<root, StagingDirName, vol.ID, restarts>>
stagingDirForVolume(root, vol) ==
    <<root, StagingDirName, vol.ID, "todo-provide-usage-options">>

\* os.MkdirAll(...); err != nil && !os.IsExist(err)
MkdirFails_Never(err) == FALSE
MkdirFails_StrictExist(err) == err # nil
MkdirFails(err) == err # nil /\ err # "EEXIST"

\* isNotMount, err := m.IsNotAMountPoint(stagingPath); if err != nil
ProbeFails_Ignored(err) == FALSE
ProbeFails(err) == err # nil

\* return !isNotMount, stagingPath, nil
existingMountOf_Never(isNotMount) == FALSE
existingMountOf(isNotMount) == ~isNotMount

\* if existingMount { ...; return nil }
reusesExistingMount_Never(existingMount) == FALSE
reusesExistingMount(existingMount) == existingMount

\* switch vol.AttachmentMode
accessTypeOf_Swapped(mode) ==
    CASE mode = "BlockDevice" -> "Mount"
      [] mode = "Filesystem" -> "Block"
      [] OTHER -> "invalid"
accessTypeOf(mode) ==
    CASE mode = "BlockDevice" -> "Block"
      [] mode = "Filesystem" -> "Mount"
      [] OTHER -> "invalid"

\* switch vol.AccessMode
accessModeOf(mode) ==
    CASE mode = "SingleNodeReader" -> "SingleNodeReaderOnly"
      [] mode = "SingleNodeWriter" -> "SingleNodeWriter"
      [] mode = "MultiNodeMultiWriter" -> "MultiNodeMultiWriter"
      [] mode = "MultiNodeSingleWriter" -> "MultiNodeSingleWriter"
      [] mode = "MultiNodeReader" -> "MultiNodeReaderOnly"
      [] OTHER -> "invalid"

\* the error of the two switches, nil when both values are known
translateError_AttachmentDefaulted(vol) ==
    IF accessModeOf(vol.AccessMode) = "invalid" THEN ErrAccessMode ELSE nil
translateError(vol) ==
    IF accessTypeOf(vol.AttachmentMode) = "invalid" THEN ErrAttachmentMode
    ELSE IF accessModeOf(vol.AccessMode) = "invalid" THEN ErrAccessMode
    ELSE nil

\* &csi.VolumeCapability{AccessType: accessType, AccessMode: accessMode, ...}
capabilityOf(vol) ==
    [AccessType |-> accessTypeOf(vol.AttachmentMode),
     AccessMode |-> accessModeOf(vol.AccessMode)]

\* stageVolume has no statement that assigns v.volumes
volumesAfterStage_RecordsEarly(vols, vol, err) ==
    [k \in DOMAIN vols \cup {UsageKey(vol)} |->
        IF k = UsageKey(vol) THEN [state |-> "Staged", refs |-> 0] ELSE vols[k]]
volumesAfterStage(vols, vol, err) == vols

\* if v.requiresStaging { err := v.stageVolume(ctx, vol) ... }
stagesFirst_Always(staging) == TRUE
stagesFirst(staging) == staging

\* MountVolume: if requiresStaging and stageVolume failed, its error;
\* otherwise fmt.Errorf("Unimplemented")
MountVolumeError_DropsStageError(staging, stageErr) == ErrUnimplemented
MountVolumeError_SwallowsStageError(staging, stageErr) ==
    IF staging /\ stageErr # nil THEN nil ELSE ErrUnimplemented
MountVolumeError_NilAfterStage(staging, stageErr) ==
    IF staging /\ stageErr # nil THEN stageErr ELSE nil
MountVolumeError(staging, stageErr) ==
    IF staging /\ stageErr # nil THEN stageErr ELSE ErrUnimplemented

\* UnmountVolume: return fmt.Errorf("Unimplemented")
UnmountVolumeError_Nil == nil
UnmountVolumeError == ErrUnimplemented

\* ---- plugin client and its retry middleware (plugins/csi, grpc_retry)

\* backoffutils.ExponentBase2(a) = (1 << a) >> 1
RECURSIVE Pow2(_)
Pow2(n) == IF n = 0 THEN 1 ELSE 2 * Pow2(n - 1)
ExponentBase2(a) == Pow2(a) \div 2

\* BackoffExponential(scalar)(attempt) = scalar * ExponentBase2(attempt)
BackoffExponential(attempt) == BackoffScalar * ExponentBase2(attempt)

\* the middleware retries ResourceExhausted, Unavailable and a per-attempt
\* timeout
IsRetriable(code) == code \in TransientCodes

\* --------------------------------------------------------------- the state

IdleCall ==
    [pc |-> "idle", op |-> "none", vol |-> NoVolume, trace |-> <<>>,
     mkdirOut |-> nil, probeErr |-> nil,
     existingMount |-> FALSE, attempts |-> 0, code |-> nil, delays |-> <<>>,
     cap |-> NoCapability, stageErr |-> nil, err |-> nil, info |-> nil,
     cancelled |-> FALSE, overlap |-> {}, mountedAtStart |-> FALSE,
     afterFailure |-> FALSE]

EmptyRegistry == [k \in {} |-> [state |-> "Unstaged", refs |-> 0]]

Init ==
    /\ requiresStaging \in BOOLEAN
    /\ mountRoot \in MountRoots
    /\ volumes = EmptyRegistry
    /\ dirs = {}
    /\ mounted = {}
    /\ nodeUnstageCalls = [id \in VolumeIDs |-> 0]
    /\ stagedKeys = {}
    /\ consumers = {}
    /\ ncalls = 0
    /\ restarts = 0
    /\ stagedAtCrash = {}
    /\ calls = [a \in Allocs |-> IdleCall]

Resting(a) == calls[a].pc \in {"idle", "returned"}
InFlight(a) == ~Resting(a)
PathOf(a) == stagingDirForVolume(mountRoot, calls[a].vol)

\* two calls that were in flight at the same time
Overlapped(a, b) == b \in calls[a].overlap \/ a \in calls[b].overlap

\* ------------------------------------------------------------- the actions

\* stageVolume returns stageErr to MountVolume, which returns to its caller
Finish(a, c, stageErr) ==
    /\ calls' = [calls EXCEPT ![a] =
                    [c EXCEPT !.pc = "returned",
                              !.stageErr = stageErr,
                              !.err = MountVolumeError(requiresStaging, stageErr)]]
    /\ volumes' = volumesAfterStage(volumes, c.vol, stageErr)
    /\ consumers' = IF stageErr = nil
                    THEN consumers \cup {<<a, UsageKey(c.vol)>>}
                    ELSE consumers

\* a call starts: who is in flight, and what the host looks like
StartCall(a, vol) ==
    [IdleCall EXCEPT
        !.op = "MountVolume", !.vol = vol,
        !.overlap = {b \in Allocs \ {a} : InFlight(b)},
        !.mountedAtStart = stagingDirForVolume(mountRoot, vol) \in mounted,
        !.afterFailure =
            \E b \in Allocs : /\ calls[b].pc = "returned"
                              /\ calls[b].op = "MountVolume"
                              /\ calls[b].stageErr # nil
                              /\ UsageKey(calls[b].vol) = UsageKey(vol)]

\* MountVolume(ctx, vol, alloc), up to the call of stageVolume
MountVolume(a, vol) ==
    /\ Resting(a)
    /\ ncalls < MaxCalls
    /\ ncalls' = ncalls + 1
    /\ LET c == StartCall(a, vol)
           others == [b \in Allocs |-> [calls[b] EXCEPT !.overlap = @ \ {a}]]
       IN IF stagesFirst(requiresStaging)
          THEN /\ calls' = [others EXCEPT ![a] = [c EXCEPT !.pc = "MkdirAll"]]
               /\ UNCHANGED consumers
          ELSE /\ calls' = [others EXCEPT ![a] =
                              [c EXCEPT !.pc = "returned",
                                        !.err = MountVolumeError(FALSE, nil)]]
               /\ consumers' = consumers \cup {<<a, UsageKey(vol)>>}
    /\ UNCHANGED <<restarts, stagedAtCrash, requiresStaging, mountRoot, volumes, dirs, mounted,
                   nodeUnstageCalls, stagedKeys>>

\* UnmountVolume(ctx, vol, alloc): return fmt.Errorf("Unimplemented")
UnmountVolume(a, vol) ==
    /\ Resting(a)
    /\ LET c == [IdleCall EXCEPT !.op = "UnmountVolume", !.vol = vol]
           others == [b \in Allocs |-> [calls[b] EXCEPT !.overlap = @ \ {a}]]
       IN calls' = [others EXCEPT ![a] =
                       [c EXCEPT !.pc = "returned", !.err = UnmountVolumeError]]
    /\ consumers' = consumers \ {<<a, UsageKey(vol)>>}
    /\ UNCHANGED <<restarts, stagedAtCrash, requiresStaging, mountRoot, volumes, dirs, mounted,
                   nodeUnstageCalls, stagedKeys, ncalls>>

\* ensureStagingDir, first half: os.MkdirAll(stagingPath, 0700); an "already
\* exists" error needs something at the path
MkdirAll(a) ==
    /\ calls[a].pc = "MkdirAll"
    /\ \E out \in MkdirOutcomes :
          LET c == [calls[a] EXCEPT !.trace = Append(@, "MkdirAll"),
                                    !.mkdirOut = out]
          IN /\ out = "EEXIST" => PathOf(a) \in dirs
             /\ dirs' = IF out = nil THEN dirs \cup {PathOf(a)} ELSE dirs
             /\ IF MkdirFails(out)
                THEN Finish(a, c, ErrMkdir)
                ELSE /\ calls' = [calls EXCEPT ![a] =
                                     [c EXCEPT !.pc = "IsNotAMountPoint"]]
                     /\ UNCHANGED <<volumes, consumers>>
    /\ UNCHANGED <<restarts, stagedAtCrash, requiresStaging, mountRoot, mounted, nodeUnstageCalls, stagedKeys, ncalls>>

\* ensureStagingDir, second half: m.IsNotAMountPoint(stagingPath), and the
\* short-circuit of stageVolume on an existing mount
IsNotAMountPoint(a) ==
    /\ calls[a].pc = "IsNotAMountPoint"
    /\ \E e \in ProbeErrors :
          LET c == [calls[a] EXCEPT !.trace = Append(@, "IsNotAMountPoint"),
                                    !.probeErr = e]
              isNotMount == PathOf(a) \notin mounted
              existing == existingMountOf(isNotMount)
              c2 == [c EXCEPT !.existingMount = existing]
          IN IF ProbeFails(e) THEN Finish(a, c, ErrProbe)
             ELSE IF reusesExistingMount(existing) THEN Finish(a, c2, nil)
             ELSE /\ calls' = [calls EXCEPT ![a] = [c2 EXCEPT !.pc = "translate"]]
                  /\ UNCHANGED <<volumes, consumers>>
    /\ UNCHANGED <<restarts, stagedAtCrash, requiresStaging, mountRoot, dirs, mounted, nodeUnstageCalls, stagedKeys, ncalls>>

\* stageVolume: the two switches, then the call v.plugin.NodeStageVolume(...)
NodeStageVolume(a) ==
    /\ calls[a].pc = "translate"
    /\ LET vol == calls[a].vol
           e == translateError(vol)
       IN IF e # nil
          THEN Finish(a, calls[a], e)
          ELSE /\ calls' = [calls EXCEPT ![a] =
                               [@ EXCEPT !.pc = "attempt",
                                         !.cap = capabilityOf(vol),
                                         !.trace = Append(@, "NodeStageVolume")]]
               /\ UNCHANGED <<volumes, consumers>>
    /\ UNCHANGED <<restarts, stagedAtCrash, requiresStaging, mountRoot, dirs, mounted, nodeUnstageCalls,
                   stagedKeys, ncalls>>

\* one attempt of the plugin's NodeStageVolume RPC ends with a status code;
\* an attempt that timed out may still have been carried out by the plugin
Attempt(a) ==
    /\ calls[a].pc = "attempt"
    /\ \E code \in {nil} \cup TransientCodes \cup FatalCodes,
          accepted \in BOOLEAN :
          LET c == [calls[a] EXCEPT !.attempts = @ + 1, !.code = code]
          IN /\ (code = nil => accepted)
             /\ (code \notin {nil, "DeadlineExceeded"} => ~accepted)
             /\ mounted' = IF accepted THEN mounted \cup {PathOf(a)} ELSE mounted
             /\ stagedKeys' = IF accepted
                              THEN stagedKeys \cup {UsageKey(c.vol)}
                              ELSE stagedKeys
             /\ IF code = nil THEN Finish(a, c, nil)
                ELSE IF IsRetriable(code) /\ c.attempts < RetryMax
                THEN /\ calls' = [calls EXCEPT ![a] = [c EXCEPT !.pc = "backoff"]]
                     /\ UNCHANGED <<volumes, consumers>>
                ELSE Finish(a, c, code)
    /\ UNCHANGED <<restarts, stagedAtCrash, requiresStaging, mountRoot, dirs, nodeUnstageCalls, ncalls>>

\* the wait between two attempts
Backoff(a) ==
    /\ calls[a].pc = "backoff"
    /\ calls' = [calls EXCEPT ![a] =
                    [@ EXCEPT !.pc = "attempt",
                              !.delays = Append(@, BackoffExponential(calls[a].attempts))]]
    /\ UNCHANGED <<restarts, stagedAtCrash, requiresStaging, mountRoot, volumes, dirs, mounted,
                   nodeUnstageCalls, stagedKeys,
                   consumers, ncalls>>

\* the caller's context is cancelled or its deadline passes while the plugin
\* call is in an attempt or waiting to retry
CtxDone(a) ==
    /\ calls[a].pc \in {"attempt", "backoff"}
    /\ \E code \in CtxCodes, accepted \in BOOLEAN :
          LET c == [calls[a] EXCEPT !.cancelled = TRUE, !.code = code]
          IN /\ (calls[a].pc = "backoff" => ~accepted)
             /\ mounted' = IF accepted THEN mounted \cup {PathOf(a)} ELSE mounted
             /\ stagedKeys' = IF accepted
                              THEN stagedKeys \cup {UsageKey(c.vol)}
                              ELSE stagedKeys
             /\ Finish(a, c, code)
    /\ UNCHANGED <<restarts, stagedAtCrash, requiresStaging, mountRoot, dirs, nodeUnstageCalls, ncalls>>

\* the client process dies and a new one calls newVolumeManager: the calls in
\* flight are gone and the registry is empty; the host keeps its directories
\* and mounts, and the plugin may still carry out an attempt it had received
Restart ==
    /\ restarts < MaxRestarts
    /\ restarts' = restarts + 1
    /\ \E landed \in SUBSET {a \in Allocs : calls[a].pc = "attempt"} :
          /\ mounted' = mounted \cup {PathOf(a) : a \in landed}
          /\ stagedKeys' = stagedKeys \cup {UsageKey(calls[a].vol) : a \in landed}
    /\ stagedAtCrash' = stagedKeys'
    /\ volumes' = EmptyRegistry
    /\ calls' = [a \in Allocs |-> IdleCall]
    /\ UNCHANGED <<requiresStaging, mountRoot, dirs, nodeUnstageCalls, consumers, ncalls>>

Next ==
    \/ \E a \in Allocs, vol \in NodeVolumes : MountVolume(a, vol)
    \/ \E a \in Allocs, vol \in NodeVolumes : UnmountVolume(a, vol)
    \/ \E a \in Allocs : MkdirAll(a)
    \/ \E a \in Allocs : IsNotAMountPoint(a)
    \/ \E a \in Allocs : NodeStageVolume(a)
    \/ \E a \in Allocs : Attempt(a)
    \/ \E a \in Allocs : Backoff(a)
    \/ \E a \in Allocs : CtxDone(a)

Spec == Init /\ [][Next]_vars

\* One MountVolume call by one allocation runner, for every volume value of
\* the vocabulary: the capability translation applied to all its inputs.
NextTranslate ==
    \/ \E vol \in CSIVolumes : ncalls = 0 /\ MountVolume("A", vol)
    \/ MkdirAll("A")
    \/ IsNotAMountPoint("A")
    \/ NodeStageVolume("A")
    \/ Attempt("A")
    \/ Backoff("A")
    \/ CtxDone("A")

SpecTranslate == Init /\ [][NextTranslate]_vars

\* MountVolume calls of the allocation runners, with crashes of the process.
NextRestart ==
    \/ \E a \in Allocs, vol \in RestartVolumes : MountVolume(a, vol)
    \/ \E a \in Allocs : MkdirAll(a)
    \/ \E a \in Allocs : IsNotAMountPoint(a)
    \/ \E a \in Allocs : NodeStageVolume(a)
    \/ \E a \in Allocs : Attempt(a)
    \/ \E a \in Allocs : Backoff(a)
    \/ \E a \in Allocs : CtxDone(a)
    \/ Restart

SpecRestart == Init /\ [][NextRestart]_vars

TypeOK ==
    /\ requiresStaging \in BOOLEAN
    /\ ncalls \in 0..MaxCalls
    /\ restarts \in 0..MaxRestarts
    /\ \A a \in Allocs : calls[a].attempts <= RetryMax

\* ------------------------------------------------------- claim vocabulary

Invoked(a) ==
    \E i \in DOMAIN calls[a].trace : calls[a].trace[i] = "NodeStageVolume"

\* a MountVolume call of a staging manager that has returned
StageReturned(a) ==
    /\ calls[a].pc = "returned"
    /\ calls[a].op = "MountVolume"
    /\ requiresStaging

\* the call got past ensureStagingDir
PastLocalIO(a) == calls[a].stageErr \notin {ErrMkdir, ErrProbe}

\* the mapping table of the specification, section 4.1
TableAccessType ==
    [m \in CSIVolumeAttachmentModes |->
        IF m = "BlockDevice" THEN "Block" ELSE "Mount"]
TableAccessMode ==
    [m \in CSIVolumeAccessModes |->
        CASE m = "SingleNodeReader" -> "SingleNodeReaderOnly"
          [] m = "SingleNodeWriter" -> "SingleNodeWriter"
          [] m = "MultiNodeReader" -> "MultiNodeReaderOnly"
          [] m = "MultiNodeSingleWriter" -> "MultiNodeSingleWriter"
          [] m = "MultiNodeMultiWriter" -> "MultiNodeMultiWriter"]

KnownModes(vol) ==
    /\ vol.AttachmentMode \in CSIVolumeAttachmentModes
    /\ vol.AccessMode \in CSIVolumeAccessModes

\* ------------------------------------------------------------------ claims

\* C1: of two concurrent stage calls for the same UsageKey, both started on an
\* unstaged volume and both past the local directory and probe steps, only
\* one invokes the plugin's NodeStageVolume, and when that one plugin call
\* succeeds both calls return success.
C1_ConcurrentStageOnce ==
    \A a, b \in Allocs :
        ( /\ a # b
          /\ StageReturned(a) /\ StageReturned(b)
          /\ UsageKey(calls[a].vol) = UsageKey(calls[b].vol)
          /\ Overlapped(a, b)
          /\ ~calls[a].mountedAtStart /\ ~calls[b].mountedAtStart
          /\ PastLocalIO(a) /\ PastLocalIO(b) )
        => /\ ~(Invoked(a) /\ Invoked(b))
           /\ (Invoked(a) /\ calls[a].stageErr = nil) => calls[b].stageErr = nil

\* C2: a stage call started when the staging path is already a mount point
\* (an earlier plugin stage mounted it) makes no plugin call, and unless its
\* directory or probe step fails it finds the mount and returns success.
C2_SecondStageShortCircuits ==
    \A a \in Allocs :
        calls[a].mountedAtStart
        => /\ ~Invoked(a)
           /\ (StageReturned(a) /\ PastLocalIO(a)
               => calls[a].existingMount /\ calls[a].stageErr = nil)

C2_Witness ==
    \E a \in Allocs :
        /\ StageReturned(a)
        /\ calls[a].mountedAtStart
        /\ UsageKey(calls[a].vol) \in stagedKeys
        /\ calls[a].existingMount
        /\ calls[a].trace = <<"MkdirAll", "IsNotAMountPoint">>
        /\ calls[a].stageErr = nil

\* C3: when an allocation that mounted a UsageKey unmounts it while another
\* allocation still holds it, the key stays Published, the staging mount stays
\* and no unstage call is made; when the last holder unmounts, the key becomes
\* Unstaged and the plugin's unstage operation is invoked exactly once.
C3_RefCountedUnstage ==
    [][\A a \in Allocs, vol \in NodeVolumes :
          ( /\ calls'[a] # calls[a]
            /\ calls'[a].op = "UnmountVolume"
            /\ calls'[a].vol = vol
            /\ <<a, UsageKey(vol)>> \in consumers )
          => IF \E b \in Allocs \ {a} : <<b, UsageKey(vol)>> \in consumers
             THEN /\ UsageKey(vol) \in DOMAIN volumes'
                  /\ volumes'[UsageKey(vol)].state = "Published"
                  /\ mounted' = mounted
                  /\ nodeUnstageCalls' = nodeUnstageCalls
             ELSE /\ nodeUnstageCalls'[vol.ID] = nodeUnstageCalls[vol.ID] + 1
                  /\ UsageKey(vol) \in DOMAIN volumes'
                     => volumes'[UsageKey(vol)].state = "Unstaged"]_vars

\* C4: the capability handed to the plugin's stage call is the one of the
\* mapping table for the volume's AttachmentMode and AccessMode; a volume with
\* a value outside the table never reaches the plugin, and when its
\* translation is reached the call fails with the matching error; a volume
\* with values of the table never fails in translation.
C4_CapabilityTable ==
    \A a \in Allocs :
        LET c == calls[a] IN
        /\ Invoked(a)
           => /\ KnownModes(c.vol)
              /\ c.cap = [AccessType |-> TableAccessType[c.vol.AttachmentMode],
                          AccessMode |-> TableAccessMode[c.vol.AccessMode]]
        /\ (StageReturned(a) /\ PastLocalIO(a) /\ ~c.existingMount)
           => /\ KnownModes(c.vol) => Invoked(a)
              /\ c.vol.AttachmentMode \notin CSIVolumeAttachmentModes
                 => c.stageErr = ErrAttachmentMode
              /\ ( /\ c.vol.AttachmentMode \in CSIVolumeAttachmentModes
                   /\ c.vol.AccessMode \notin CSIVolumeAccessModes )
                 => c.stageErr = ErrAccessMode

C4_Witness ==
    /\ calls["A"].vol.AttachmentMode = "BlockDevice"
    /\ calls["A"].vol.AccessMode = "MultiNodeReader"
    /\ Invoked("A")
    /\ calls["A"].cap = [AccessType |-> "Block", AccessMode |-> "MultiNodeReaderOnly"]
    /\ calls["A"].pc = "returned"
    /\ calls["A"].stageErr = nil

\* C5 as stated: a stage call for a volume with an unknown AttachmentMode
\* returns the attachment-mode error with no directory creation, no probe and
\* no plugin call done.
C5_UnknownAttachmentBeforeIO ==
    \A a \in Allocs :
        (StageReturned(a) /\ calls[a].vol.AttachmentMode \notin CSIVolumeAttachmentModes)
        => /\ calls[a].stageErr = ErrAttachmentMode
           /\ calls[a].trace = <<>>

\* C5 as amended: a stage call for a volume with an unknown AttachmentMode
\* never calls the plugin; it creates the staging directory and probes the
\* path first, and returns the attachment-mode error exactly when both
\* succeeded and the path is not a mount point (an existing mount makes it
\* return success without looking at the mode).
C5_UnknownAttachmentNoPluginCall ==
    \A a \in Allocs :
        calls[a].vol.AttachmentMode = UnknownMode
        => /\ ~Invoked(a)
           /\ StageReturned(a)
              => /\ calls[a].trace \in {<<"MkdirAll">>, <<"MkdirAll", "IsNotAMountPoint">>}
                 /\ calls[a].stageErr \in {ErrMkdir, ErrProbe, ErrAttachmentMode, nil}
                 /\ calls[a].stageErr = ErrMkdir <=> calls[a].trace = <<"MkdirAll">>
                 /\ calls[a].stageErr = nil <=> calls[a].existingMount
                 /\ calls[a].stageErr = ErrAttachmentMode
                    <=> /\ PastLocalIO(a)
                        /\ ~calls[a].existingMount

C5_Witness ==
    \E a \in Allocs :
        /\ StageReturned(a)
        /\ calls[a].vol.AttachmentMode = UnknownMode
        /\ calls[a].trace = <<"MkdirAll", "IsNotAMountPoint">>
        /\ calls[a].stageErr = ErrAttachmentMode
        /\ calls[a].err = ErrAttachmentMode

\* C6: a stage call short-circuits as already staged only when a plugin stage
\* call for its own UsageKey mounted the staging path; staging another
\* UsageKey of the same volume never makes it do so.
C6_KeysStagedIndependently ==
    \A a \in Allocs :
        (calls[a].op = "MountVolume" /\ calls[a].existingMount)
        => UsageKey(calls[a].vol) \in stagedKeys

\* C7: the plugin stage call is never attempted more than 3 times; a call
\* that ends with a transient-class error without its context being done was
\* attempted exactly 3 times, waited 100 ms and then 200 ms between the
\* attempts, and surfaces that error to the caller.
C7_TransientRetryBound ==
    \A a \in Allocs :
        LET c == calls[a] IN
        /\ c.attempts <= 3
        /\ \A i \in DOMAIN c.delays :
              /\ i = 1 => c.delays[i] = 100
              /\ i > 1 => c.delays[i] > c.delays[i - 1]
        /\ (StageReturned(a) /\ c.stageErr \in TransientCodes /\ ~c.cancelled)
           => /\ c.attempts = 3
              /\ Len(c.delays) = 2
              /\ c.err = c.stageErr

C7_Witness ==
    \E a \in Allocs :
        /\ StageReturned(a)
        /\ calls[a].stageErr = "Unavailable"
        /\ ~calls[a].cancelled
        /\ calls[a].attempts = 3
        /\ calls[a].delays = <<100, 200>>

\* C8: an attempt of the plugin stage call that ends with an error outside
\* the transient class ends the call: no wait and no attempt follows it, and
\* that error is what stageVolume and MountVolume return; when it is the first
\* attempt that fails so, the plugin was attempted exactly once.
C8_FatalErrorSurfaced ==
    \A a \in Allocs :
        LET c == calls[a] IN
        c.code \in FatalCodes
        => /\ c.pc = "returned"
           /\ c.stageErr = c.code
           /\ c.err = c.code
           /\ Len(c.delays) = c.attempts - 1
           /\ c.delays = <<>> => c.attempts = 1

C8_Witness ==
    \E a \in Allocs :
        /\ StageReturned(a)
        /\ calls[a].code = "Internal"
        /\ calls[a].attempts = 1
        /\ calls[a].err = "Internal"

\* C9: after a stage call that invoked the plugin and succeeded, the registry
\* holds a record for the UsageKey with state Staged and reference count 0.
C9_FreshStageRecorded ==
    \A a \in Allocs :
        (StageReturned(a) /\ Invoked(a) /\ calls[a].stageErr = nil)
        => /\ UsageKey(calls[a].vol) \in DOMAIN volumes
           /\ volumes[UsageKey(calls[a].vol)] = [state |-> "Staged", refs |-> 0]

\* C10: when a stage call has returned an error the registry is as it was
\* created and holds no record for the UsageKey; a stage call made for the
\* same UsageKey after such a failure starts again with the directory and
\* the probe, and succeeds only through the probe or the plugin.
C10_FailedStageLeavesNoRecord ==
    \A a \in Allocs :
        /\ (StageReturned(a) /\ calls[a].stageErr # nil)
           => /\ volumes = EmptyRegistry
              /\ UsageKey(calls[a].vol) \notin DOMAIN volumes
        /\ (StageReturned(a) /\ calls[a].afterFailure /\ calls[a].stageErr = nil)
           => /\ Len(calls[a].trace) >= 2
              /\ calls[a].trace[1] = "MkdirAll"
              /\ calls[a].trace[2] = "IsNotAMountPoint"
              /\ calls[a].existingMount \/ (Invoked(a) /\ calls[a].code = nil)

C10_Witness ==
    \E a \in Allocs :
        /\ StageReturned(a)
        /\ calls[a].afterFailure
        /\ calls[a].stageErr = nil
        /\ calls[a].trace = <<"MkdirAll", "IsNotAMountPoint", "NodeStageVolume">>
        /\ volumes = EmptyRegistry

\* C11: a stage call returns success only when its probe found the staging
\* path mounted or its plugin stage call ended with success; a failed
\* directory creation, a failed probe, a failed translation and a failed
\* plugin call each make stageVolume return an error, and MountVolume returns
\* that error, never nil.
C11_NoErrorSwallowed ==
    \A a \in Allocs :
        LET c == calls[a] IN
        StageReturned(a)
        => /\ c.stageErr = nil
              => \/ c.existingMount /\ c.probeErr = nil
                 \/ Invoked(a) /\ c.attempts >= 1 /\ c.code = nil
           /\ c.mkdirOut \notin {"nil", "EEXIST"} => c.stageErr # nil
           /\ c.probeErr # nil => c.stageErr # nil
           /\ (c.trace = <<"MkdirAll", "IsNotAMountPoint">> /\ c.probeErr = nil
               /\ ~c.existingMount /\ ~KnownModes(c.vol))
              => c.stageErr # nil
           /\ c.code # nil => c.stageErr # nil
           /\ c.stageErr # nil => c.err = c.stageErr
           /\ c.err # "nil"

C11_Witness ==
    \E a, b \in Allocs :
        /\ StageReturned(a) /\ StageReturned(b)
        /\ calls[a].mkdirOut = "EACCES"
        /\ calls[a].err = ErrMkdir
        /\ calls[b].code = "Internal"
        /\ calls[b].err = "Internal"

\* C14: a probe of the staging path that returns an error ends the call: the
\* probe ran once, the plugin's stage operation was not invoked, and the call
\* returned the probe error.
C14_ProbeErrorIsFatal ==
    \A a \in Allocs :
        calls[a].probeErr # nil
        => /\ calls[a].pc = "returned"
           /\ calls[a].trace = <<"MkdirAll", "IsNotAMountPoint">>
           /\ calls[a].attempts = 0
           /\ calls[a].stageErr = "mount point detection failed"
           /\ calls[a].err = "mount point detection failed"

C14_Witness ==
    \E a \in Allocs :
        /\ StageReturned(a)
        /\ calls[a].probeErr = "EIO"
        /\ calls[a].stageErr = ErrProbe
        /\ ~Invoked(a)

\* C15: after a directory creation that reported "already exists" the call
\* goes on to the mount-point probe; after any other directory creation error
\* the call has returned the directory error with no probe and no plugin call.
C15_MkdirExistIsSuccess ==
    \A a \in Allocs :
        LET c == calls[a] IN
        /\ c.mkdirOut = "EEXIST"
           => /\ c.stageErr # ErrMkdir
              /\ \/ c.pc = "IsNotAMountPoint"
                 \/ (Len(c.trace) >= 2 /\ c.trace[2] = "IsNotAMountPoint")
        /\ c.mkdirOut \notin {"nil", "EEXIST"}
           => /\ c.pc = "returned"
              /\ c.trace = <<"MkdirAll">>
              /\ c.stageErr = "failed to create staging directory"
              /\ c.err = c.stageErr

C15_Witness ==
    \E a, b \in Allocs :
        /\ calls[a].mkdirOut = "EEXIST"
        /\ StageReturned(a)
        /\ calls[a].trace = <<"MkdirAll", "IsNotAMountPoint", "NodeStageVolume">>
        /\ calls[a].stageErr = nil
        /\ a # b
        /\ calls[b].mkdirOut = nil
        /\ PathOf(b) = PathOf(a)
        /\ calls[b].stageErr = "Internal"

\* C17: a manager created with requiresStaging = false never creates a
\* staging directory, never probes a mount point and never invokes the
\* plugin's stage operation: every MountVolume call returns at once.
C17_NoStagingWhenNotRequired ==
    ~requiresStaging
    => /\ dirs = {}
       /\ mounted = {}
       /\ stagedKeys = {}
       /\ \A a \in Allocs :
             /\ calls[a].trace = <<>>
             /\ calls[a].attempts = 0
             /\ calls[a].pc \in {"idle", "returned"}

C17_Witness ==
    /\ ~requiresStaging
    /\ \A a \in Allocs :
          /\ calls[a].pc = "returned"
          /\ calls[a].op = "MountVolume"
          /\ calls[a].err = ErrUnimplemented
    /\ calls["A"].vol # calls["B"].vol

\* C16: while the stage step of a MountVolume call is running nothing has
\* been returned; when the stage step failed, MountVolume returns its error
\* with no MountInfo and does not reach the publish placeholder; the publish
\* placeholder (the Unimplemented return) is reached only after the stage step
\* returned success in the same call.
C16_StageBeforePublish ==
    \A a \in Allocs :
        LET c == calls[a] IN
        /\ InFlight(a) => c.err = nil /\ c.info = nil
        /\ (StageReturned(a) /\ c.stageErr # nil)
           => /\ c.err = c.stageErr
              /\ c.err # "Unimplemented"
              /\ c.info = nil
        /\ (StageReturned(a) /\ c.err = "Unimplemented")
           => /\ c.stageErr = nil
              /\ c.existingMount \/ (Invoked(a) /\ c.code = nil)

C16_Witness ==
    \E a, b \in Allocs :
        /\ StageReturned(a) /\ StageReturned(b)
        /\ calls[a].stageErr = ErrProbe
        /\ calls[a].err = ErrProbe
        /\ calls[b].stageErr = nil
        /\ Invoked(b)
        /\ calls[b].err = ErrUnimplemented

C19_MountVolumeAlwaysErrors ==
    \A a \in Allocs :
        LET c == calls[a] IN
        (c.pc = "returned" /\ c.op = "MountVolume")
        => /\ c.info = "nil"
           /\ c.err # "nil"
           /\ IF requiresStaging /\ c.stageErr # "nil"
              THEN c.err = c.stageErr /\ c.err # "Unimplemented"
              ELSE c.err = "Unimplemented"

C19_Witness ==
    \E a, b \in Allocs :
        /\ calls[a].pc = "returned" /\ calls[a].op = "MountVolume"
        /\ calls[b].pc = "returned" /\ calls[b].op = "MountVolume"
        /\ calls[a].stageErr = "Unavailable"
        /\ calls[a].err = "Unavailable"
        /\ calls[b].existingMount
        /\ calls[b].err = ErrUnimplemented


C13_RestartRediscoversStagedVolume ==
    \A a \in Allocs :
        LET c == calls[a] IN
        ( /\ restarts > 0
          /\ c.op = "MountVolume"
          /\ requiresStaging
          /\ UsageKey(c.vol) \in stagedAtCrash )
        => /\ PathOf(a) \in mounted
           /\ c.mountedAtStart
           /\ ~Invoked(a)
           /\ (c.pc = "returned" /\ PastLocalIO(a))
              => /\ c.existingMount
                 /\ c.stageErr = nil

C13_Witness ==
    \E a \in Allocs :
        /\ restarts = 1
        /\ volumes = EmptyRegistry
        /\ StageReturned(a)
        /\ UsageKey(calls[a].vol) \in stagedAtCrash
        /\ calls[a].trace = <<"MkdirAll", "IsNotAMountPoint">>
        /\ calls[a].mkdirOut = "EEXIST"
        /\ calls[a].existingMount
        /\ calls[a].stageErr = nil

====
